---- MODULE Spec2Model ----
(***************************************************************************)
(* A model of the cryo-ET tomogram utilities: the wedge aligner            *)
(* (alignWedge.py, rotate.py, rotateTomo.py), the missing-wedge masker     *)
(* (addWedge.py) and the image-stack exporters (plot.py).                  *)
(*                                                                         *)
(* Each script is a batch program: it reads one volume file, computes, and *)
(* writes its output.  A behaviour of the model is a session in which the  *)
(* scripts are run, in any order, on the arguments chosen in the initial   *)
(* state.  One action is one whole call of one function.                   *)
(*                                                                         *)
(* Numbers.  Angles in degrees are held as whole numbers of half degrees   *)
(* (Deg(30) = 60), so that a halved difference of whole degrees stays      *)
(* exact; angles in radians are held as whole numbers of pi/12.  Floating  *)
(* point rounding is not modelled: all arithmetic is exact.                *)
(***************************************************************************)
EXTENDS Integers, Sequences, FiniteSets, TLC

VARIABLES
    args,   \* the arguments the scripts of this session are called with
    fs,     \* the files that exist: path -> contents
    dirs,   \* the directories that exist
    ret     \* per function: NotRun, or what its last call computed

vars == <<args, fs, dirs, ret>>

(***************************************************************************)
(* Bounds of the model.                                                    *)
(***************************************************************************)
MaxTiltStep == 6     \* tilt angles are the multiples of 15 degrees up to 15 * MaxTiltStep
MaxRotations == 2    \* how often a volume may be rotated onto its own path
MaxAxis == 4         \* the longest axis 0 and axis 2 of a volume
MaxSpheres == 2      \* the most spheres mkRandomSpheres is asked to place
MaxAttempts == 2     \* max_attempts, the attempts allowed for one sphere
VolumeSize == 3      \* the edge of the cube makemrc.py fills with spheres

(***************************************************************************)
(* Arithmetic helpers.                                                     *)
(***************************************************************************)
Abs(x) == IF x < 0 THEN -x ELSE x

Deg(d) == 2 * d      \* d degrees, in half degrees

NotRun == [raised |-> "NotRun"]   \* a function that has not been called

(***************************************************************************)
(* Paths.  A path string is a sequence of tokens; "/" separates            *)
(* directories and a token that starts with a dot is an extension.         *)
(***************************************************************************)
Extensions == {".mrc", ".png"}

LastSlash(p) ==
    LET at == {i \in 1..Len(p) : p[i] = "/"}
    IN  IF at = {} THEN 0 ELSE CHOOSE i \in at : \A j \in at : j <= i

\* os.path.splitext(p)[0]
SplitextRoot(p) ==
    IF Len(p) > LastSlash(p) + 1 /\ p[Len(p)] \in Extensions
    THEN SubSeq(p, 1, Len(p) - 1)
    ELSE p

\* os.path.basename(p)
Basename(p) == SubSeq(p, LastSlash(p) + 1, Len(p))

\* os.path.dirname(p)
Dirname(p) == SubSeq(p, 1, LastSlash(p) - 1)

\* os.path.join(a, b) for a relative b
PathJoin(a, b) == IF a = <<>> THEN b ELSE a \o <<"/">> \o b

\* mrcfile.new(path, overwrite=True) followed by set_data
WriteFile(files, path, contents) ==
    [q \in (DOMAIN files) \cup {path} |-> IF q = path THEN contents ELSE files[q]]

(***************************************************************************)
(* Volumes.  A volume is its shape and, abstractly, its samples: the       *)
(* sequence of transformations applied to the samples of the original      *)
(* tomogram.                                                               *)
(***************************************************************************)
Volume(shape, data) == [shape |-> shape, data |-> data]

NdimageRotateReshaped(tomo, angle, axes) ==
    Volume(<<tomo.shape[1] + tomo.shape[3], tomo.shape[2], tomo.shape[1] + tomo.shape[3]>>,
           Append(tomo.data, [op |-> "rotate", angle |-> angle, axes |-> axes,
                              order |-> 3, mode |-> "constant", cval |-> 0]))

\* scipy.ndimage.rotate(input, angle, axes, reshape=False, order=3,
\*                      mode='constant', cval=0)
NdimageRotate(tomo, angle, axes) ==
    Volume(tomo.shape,
           Append(tomo.data, [op |-> "rotate", angle |-> angle, axes |-> axes,
                              order |-> 3, mode |-> "constant", cval |-> 0]))

(***************************************************************************)
(* The wedge aligner: the two rotation-angle conventions.                  *)
(***************************************************************************)
HalfDifferenceNoAbs(angles) ==
    LET wedge_angle_start == angles[1]
        wedge_angle_end   == angles[2]
    IN  [wedge_angle_start |-> wedge_angle_start,
         wedge_angle_end   |-> wedge_angle_end,
         wedge_angle_sum   |-> wedge_angle_start + wedge_angle_end,
         rotation_angle    |-> (wedge_angle_start - wedge_angle_end) \div 2]

\* alignWedge.py: rotation = (|start| - |end|) / 2
HalfDifference(angles) ==
    LET wedge_angle_start == angles[1]
        wedge_angle_end   == angles[2]
    IN  [wedge_angle_start |-> wedge_angle_start,
         wedge_angle_end   |-> wedge_angle_end,
         wedge_angle_sum   |-> Abs(wedge_angle_start) + Abs(wedge_angle_end),
         rotation_angle    |-> (Abs(wedge_angle_start) - Abs(wedge_angle_end)) \div 2]

ComplementNoHalving(angles) ==
    LET wedge_angle_start == Deg(90) + angles[1]
        wedge_angle_end   == Deg(90) - angles[2]
        wedge_angle_sum   == wedge_angle_start + wedge_angle_end
    IN  [wedge_angle_start |-> wedge_angle_start,
         wedge_angle_end   |-> wedge_angle_end,
         wedge_angle_sum   |-> wedge_angle_sum,
         rotation_angle    |-> wedge_angle_end - wedge_angle_sum]

ComplementFromStart(angles) ==
    LET wedge_angle_start == Deg(90) + angles[1]
        wedge_angle_end   == Deg(90) - angles[2]
        wedge_angle_sum   == wedge_angle_start + wedge_angle_end
    IN  [wedge_angle_start |-> wedge_angle_start,
         wedge_angle_end   |-> wedge_angle_end,
         wedge_angle_sum   |-> wedge_angle_sum,
         rotation_angle    |-> wedge_angle_start - wedge_angle_sum \div 2]

\* rotate.py, rotateTomo.py: rotation = wedgeEnd - (wedgeStart + wedgeEnd) / 2
Complement(angles) ==
    LET wedge_angle_start == Deg(90) + angles[1]
        wedge_angle_end   == Deg(90) - angles[2]
        wedge_angle_sum   == wedge_angle_start + wedge_angle_end
    IN  [wedge_angle_start |-> wedge_angle_start,
         wedge_angle_end   |-> wedge_angle_end,
         wedge_angle_sum   |-> wedge_angle_sum,
         rotation_angle    |-> wedge_angle_end - wedge_angle_sum \div 2]

\* the save path of alignWedge.py and rotate.py
RotatedSavePath(tomogram_path, save_dir) ==
    LET base_path == SplitextRoot(tomogram_path)
        base_name == Basename(base_path)
    IN  IF save_dir # <<>>
        THEN PathJoin(save_dir, base_name) \o <<"_rotated", ".mrc">>
        ELSE base_path \o <<"_rotated", ".mrc">>

\* what a rotateTomogram call leaves behind
Rotated(a, save_path) ==
    [raised            |-> "None",
     wedge_angle_start |-> a.wedge_angle_start,
     wedge_angle_end   |-> a.wedge_angle_end,
     wedge_angle_sum   |-> a.wedge_angle_sum,
     rotation_angle    |-> a.rotation_angle,
     save_path         |-> save_path]

\* alignWedge.py rotateTomogram(tomogram_path, angles, save_dir)
AlignWedge_rotateTomogram ==
    /\ args.tomogram_path \in DOMAIN fs
    /\ LET a         == HalfDifference(args.angles)
           tomo      == fs[args.tomogram_path]
           rotated   == NdimageRotate(tomo, -a.rotation_angle, <<0, 2>>)
           save_path == RotatedSavePath(args.tomogram_path, args.save_dir)
       IN  /\ fs' = WriteFile(fs, save_path, rotated)
           /\ ret' = [ret EXCEPT !["alignWedge"] = Rotated(a, save_path)]
    /\ UNCHANGED <<args, dirs>>

\* rotate.py rotateTomogram(tomogram_path, angles, save_dir)
Rotate_rotateTomogram ==
    /\ args.tomogram_path \in DOMAIN fs
    /\ LET a         == Complement(args.angles)
           tomo      == fs[args.tomogram_path]
           rotated   == NdimageRotate(tomo, -a.rotation_angle, <<0, 2>>)
           save_path == RotatedSavePath(args.tomogram_path, args.save_dir)
       IN  /\ fs' = WriteFile(fs, save_path, rotated)
           /\ ret' = [ret EXCEPT !["rotate"] = Rotated(a, save_path)]
    /\ UNCHANGED <<args, dirs>>

\* rotateTomo.py rotateTomogram(filepath, targetpath, angles)
RotateTomo_rotateTomogram ==
    /\ args.tomogram_path \in DOMAIN fs
    /\ Len(fs[args.tomogram_path].data) < MaxRotations
    /\ LET a        == Complement(args.angles)
           tomogram == fs[args.tomogram_path]
           rotated  == NdimageRotate(tomogram, -a.rotation_angle, <<0, 2>>)
       IN  /\ fs' = WriteFile(fs, args.targetpath, rotated)
           /\ ret' = [ret EXCEPT !["rotateTomo"] = Rotated(a, args.targetpath)]
    /\ UNCHANGED <<args, dirs>>

(***************************************************************************)
(* The aligner's sessions: a tomogram, a tilt range, a save directory.     *)
(***************************************************************************)
TiltAngles == {Deg(15 * k) : k \in -MaxTiltStep..MaxTiltStep}

TomogramPath == <<"data", "/", "tomo", ".mrc">>

AlignFunctions == {"alignWedge", "rotate", "rotateTomo"}

\* the shapes of the tomograms the aligner is run on: (axis0, axis1, axis2)
TomogramShapes == {<<4, 3, 4>>, <<2, 3, 5>>}

InitAlign ==
    /\ args \in [tomogram_path : {TomogramPath},
                 angles        : TiltAngles \X TiltAngles,
                 save_dir      : {<<>>, <<"out">>},
                 targetpath    : {TomogramPath, <<"out", "/", "tomo", "_sym", ".mrc">>}]
    /\ \E shape \in TomogramShapes : fs = [p \in {TomogramPath} |-> Volume(shape, <<>>)]
    /\ dirs = {<<"data">>, <<"out">>}
    /\ ret = [f \in AlignFunctions |-> NotRun]

NextAlign ==
    \/ AlignWedge_rotateTomogram
    \/ Rotate_rotateTomogram
    \/ RotateTomo_rotateTomogram

SpecAlign == InitAlign /\ [][NextAlign]_vars

(***************************************************************************)
(* The command-line entry points of the aligners (main() of alignWedge.py  *)
(* and of rotate.py).  A command line is the sequence of its arguments;    *)
(* the text of a number is the sequence of its characters.                 *)
(***************************************************************************)
DigitValue ==
    [c \in {"0", "1", "2", "3", "4", "5", "6", "7", "8", "9"} |->
        CASE c = "0" -> 0 [] c = "1" -> 1 [] c = "2" -> 2 [] c = "3" -> 3
          [] c = "4" -> 4 [] c = "5" -> 5 [] c = "6" -> 6 [] c = "7" -> 7
          [] c = "8" -> 8 [] c = "9" -> 9]

IsDigits(text) == Len(text) >= 1 /\ \A i \in 1..Len(text) : text[i] \in DOMAIN DigitValue

RECURSIVE DigitsValue(_)
DigitsValue(text) ==
    IF text = <<>> THEN 0
    ELSE 10 * DigitsValue(SubSeq(text, 1, Len(text) - 1)) + DigitValue[text[Len(text)]]

\* float(text) succeeds
IsFloatText(text) ==
    \/ IsDigits(text)
    \/ Len(text) >= 2 /\ text[1] = "-" /\ IsDigits(Tail(text))

\* float(text), in degrees
Float(text) ==
    IF text[1] = "-" THEN Deg(-DigitsValue(Tail(text))) ELSE Deg(DigitsValue(text))

\* parser.parse_args(): tomogram_path, angles (type=float, nargs=2) and the
\* optional --save_dir; a command line the parser rejects exits the program
ParseArgs(argv) ==
    IF /\ Len(argv) \in {3, 5}
       /\ IsFloatText(argv[2]) /\ IsFloatText(argv[3])
       /\ Len(argv) = 5 => argv[4] = <<"--save_dir">>
    THEN [raised    |-> "None",
          namespace |-> [tomogram_path |-> argv[1],
                         angles        |-> <<Float(argv[2]), Float(argv[3])>>,
                         save_dir      |-> IF Len(argv) = 5 THEN argv[5] ELSE <<>>]]
    ELSE [raised |-> "SystemExit"]

\* alignWedge.py main()
AlignWedge_main ==
    LET parsed == ParseArgs(args.argv)
    IN  IF parsed.raised # "None"
        THEN /\ ret' = [ret EXCEPT !["alignWedge.main"] = [raised |-> parsed.raised]]
             /\ UNCHANGED <<args, fs, dirs>>
        ELSE LET ns        == parsed.namespace
                 a         == HalfDifference(ns.angles)
                 rotated   == NdimageRotate(fs[ns.tomogram_path], -a.rotation_angle, <<0, 2>>)
                 save_path == RotatedSavePath(ns.tomogram_path, ns.save_dir)
             IN  /\ ns.tomogram_path \in DOMAIN fs
                 /\ fs' = WriteFile(fs, save_path, rotated)
                 /\ ret' = [ret EXCEPT !["alignWedge"] = Rotated(a, save_path),
                                       !["alignWedge.main"] = [raised |-> "None"]]
                 /\ UNCHANGED <<args, dirs>>

\* rotate.py main(): the call reads args.angle
Rotate_main ==
    LET parsed == ParseArgs(args.argv)
    IN  IF parsed.raised # "None"
        THEN /\ ret' = [ret EXCEPT !["rotate.main"] = [raised |-> parsed.raised]]
             /\ UNCHANGED <<args, fs, dirs>>
        ELSE IF "angle" \notin DOMAIN parsed.namespace
        THEN /\ ret' = [ret EXCEPT !["rotate.main"] = [raised |-> "AttributeError"]]
             /\ UNCHANGED <<args, fs, dirs>>
        ELSE LET ns        == parsed.namespace
                 a         == Complement(ns.angle)
                 rotated   == NdimageRotate(fs[ns.tomogram_path], -a.rotation_angle, <<0, 2>>)
                 save_path == RotatedSavePath(ns.tomogram_path, ns.save_dir)
             IN  /\ ns.tomogram_path \in DOMAIN fs
                 /\ fs' = WriteFile(fs, save_path, rotated)
                 /\ ret' = [ret EXCEPT !["rotate"] = Rotated(a, save_path),
                                       !["rotate.main"] = [raised |-> "None"]]
                 /\ UNCHANGED <<args, dirs>>

\* the texts given for an angle on the command line
AngleTexts ==
    {<<"-", "6", "0">>, <<"-", "4", "5">>, <<"0">>, <<"3", "0">>, <<"6", "0">>,
     <<"9", "0">>, <<"x">>}

CommandLines ==
    {<<TomogramPath, a>> : a \in AngleTexts}
        \cup {<<TomogramPath, a, b>> : a \in AngleTexts, b \in AngleTexts}
        \cup {<<TomogramPath, a, b, <<"--save_dir">>, <<"out">>>> :
                  a \in AngleTexts, b \in AngleTexts}

MainFunctions == {"alignWedge.main", "rotate.main", "alignWedge", "rotate"}

InitMain ==
    /\ args \in [argv : CommandLines]
    /\ \E shape \in TomogramShapes : fs = [p \in {TomogramPath} |-> Volume(shape, <<>>)]
    /\ dirs = {<<"data">>, <<"out">>}
    /\ ret = [f \in MainFunctions |-> NotRun]

NextMain ==
    \/ AlignWedge_main
    \/ Rotate_main

SpecMain == InitMain /\ [][NextMain]_vars

(***************************************************************************)
(* The missing-wedge masker (addWedge.py).                                 *)
(*                                                                         *)
(* Radians are held as whole numbers of pi/12, so deg2rad is exact on the  *)
(* multiples of 15 degrees.  arctan2 of two whole numbers is held as the   *)
(* pair (lo, hi) of the multiples of pi/12 that enclose it, lo = hi when   *)
(* the angle is such a multiple; the comparisons below are exact, by the   *)
(* tangents of 15, 30, 45, 60 and 75 degrees.                              *)
(***************************************************************************)
\* numpy.deg2rad
Deg2Rad(x) == x \div 30

\* k * 15 degrees <= atan2(p, q), for p, q >= 0 not both 0
AtLeast(k, p, q) ==
    CASE k = 0 -> TRUE
      [] k = 1 -> 2 * q - p <= 0 \/ (2 * q - p) * (2 * q - p) <= 3 * q * q
      [] k = 2 -> q * q <= 3 * p * p
      [] k = 3 -> q <= p
      [] k = 4 -> 3 * q * q <= p * p
      [] k = 5 -> p - 2 * q >= 0 /\ 3 * q * q <= (p - 2 * q) * (p - 2 * q)
      [] k = 6 -> q = 0

\* atan2(p, q) <= k * 15 degrees, for p, q >= 0 not both 0
AtMost(k, p, q) ==
    CASE k = 0 -> p = 0
      [] k = 1 -> 2 * q - p >= 0 /\ (2 * q - p) * (2 * q - p) >= 3 * q * q
      [] k = 2 -> q * q >= 3 * p * p
      [] k = 3 -> q >= p
      [] k = 4 -> 3 * q * q >= p * p
      [] k = 5 -> p - 2 * q <= 0 \/ 3 * q * q >= (p - 2 * q) * (p - 2 * q)
      [] k = 6 -> TRUE

QuadrantFloor(p, q) == CHOOSE k \in 0..6 : AtLeast(k, p, q) /\ \A j \in (k + 1)..6 : ~AtLeast(j, p, q)

QuadrantCeil(p, q) == CHOOSE k \in 0..6 : AtMost(k, p, q) /\ \A j \in 0..(k - 1) : ~AtMost(j, p, q)

\* numpy.arctan2(y, x), in (-pi, pi], arctan2(0, 0) = 0
Arctan2(y, x) ==
    LET lo == QuadrantFloor(Abs(y), Abs(x))
        hi == QuadrantCeil(Abs(y), Abs(x))
    IN  CASE y = 0 /\ x >= 0 -> [lo |-> 0, hi |-> 0]
          [] y = 0 /\ x < 0  -> [lo |-> 12, hi |-> 12]
          [] y > 0 /\ x >= 0 -> [lo |-> lo, hi |-> hi]
          [] y > 0 /\ x < 0  -> [lo |-> 12 - hi, hi |-> 12 - lo]
          [] y < 0 /\ x >= 0 -> [lo |-> -hi, hi |-> -lo]
          [] y < 0 /\ x < 0  -> [lo |-> lo - 12, hi |-> hi - 12]

\* theta < r and theta > r, for r a whole number of pi/12
Less(theta, r) == theta.hi <= r /\ theta.lo < r

Greater(theta, r) == theta.lo >= r /\ theta.hi > r

\* numpy.fft.fftfreq(n): the sample frequencies k / n, in FFT order
FftFreq(n) ==
    LET N == (n - 1) \div 2 + 1
    IN  [i \in 0..(n - 1) |->
            [num |-> IF i < N THEN i ELSE -(n \div 2) + (i - N), den |-> n]]

\* an array of fractions times a whole number
Times(freqs, x) == [i \in DOMAIN freqs |-> (freqs[i].num * x) \div freqs[i].den]

FrequencyAxisUnscaled(n) == Times(FftFreq(n), 1)

\* kx = np.fft.fftfreq(x) * x
FrequencyAxis(n) == Times(FftFreq(n), n)

Indices(shape) == (0..(shape[1] - 1)) \X (0..(shape[2] - 1)) \X (0..(shape[3] - 1))

\* np.fft.fftn(tomo): the coefficient at idx stands for itself
Fftn(tomo) == [idx \in Indices(tomo.shape) |-> [coeff |-> idx]]

ZeroCoeff == [coeff |-> <<>>]

MissingWedgeMaskSwapped(shape, angle_neg, angle_pos) ==
    LET kx == FrequencyAxis(shape[1])
        kz == FrequencyAxis(shape[3])
    IN  {idx \in Indices(shape) :
            LET theta == Arctan2(kz[idx[3]], kx[idx[1]])
            IN  Less(theta, angle_neg) \/ Greater(theta, angle_pos)}

MissingWedgeMaskBoth(shape, angle_neg, angle_pos) ==
    LET kx == FrequencyAxis(shape[1])
        kz == FrequencyAxis(shape[3])
    IN  {idx \in Indices(shape) :
            LET theta == Arctan2(kx[idx[1]], kz[idx[3]])
            IN  Less(theta, angle_neg) /\ Greater(theta, angle_pos)}

MissingWedgeMaskInclusive(shape, angle_neg, angle_pos) ==
    LET kx == FrequencyAxis(shape[1])
        kz == FrequencyAxis(shape[3])
    IN  {idx \in Indices(shape) :
            LET theta == Arctan2(kx[idx[1]], kz[idx[3]])
            IN  ~Greater(theta, angle_neg) \/ ~Less(theta, angle_pos)}

MissingWedgeMaskAxis1(shape, angle_neg, angle_pos) ==
    LET ky == FrequencyAxis(shape[2])
        kz == FrequencyAxis(shape[3])
    IN  {idx \in Indices(shape) :
            LET theta == Arctan2(ky[idx[2]], kz[idx[3]])
            IN  Less(theta, angle_neg) \/ Greater(theta, angle_pos)}

\* theta = np.arctan2(kX, kZ); mask = (theta < angle_neg) | (theta > angle_pos)
MissingWedgeMask(shape, angle_neg, angle_pos) ==
    LET kx == FrequencyAxis(shape[1])
        kz == FrequencyAxis(shape[3])
    IN  {idx \in Indices(shape) :
            LET theta == Arctan2(kx[idx[1]], kz[idx[3]])
            IN  Less(theta, angle_neg) \/ Greater(theta, angle_pos)}

\* tomogram_fft[missing_wedge_mask] = 0
ZeroWhere(tomogram_fft, mask) ==
    [idx \in DOMAIN tomogram_fft |-> IF idx \in mask THEN ZeroCoeff ELSE tomogram_fft[idx]]

\* np.fft.ifftn(tomogram_fft).real, of the spectrum of tomo
IfftnReal(tomo, tomogram_fft) ==
    Volume(tomo.shape,
           Append(tomo.data, [op |-> "missing_wedge",
                              zeroed |-> {idx \in DOMAIN tomogram_fft : tomogram_fft[idx] = ZeroCoeff}]))

\* the text of an angle in a file name
AngleText(x) == ToString(x \div 2)

MissingWedgePathSigned(tomogram_path, angles) ==
    LET angle_neg_deg == angles[1]
        angle_pos_deg == angles[2]
        base_path     == SplitextRoot(tomogram_path)
    IN  base_path \o <<"_mw_", AngleText(angle_neg_deg), "_",
                       AngleText(angle_pos_deg), ".mrc">>

\* new_path = f'{base_path}_mw_{angle_neg_deg}_{angle_pos_deg}.mrc'
MissingWedgePath(tomogram_path, angles) ==
    LET angle_neg_deg == Abs(angles[1])
        angle_pos_deg == angles[2]
        base_path     == SplitextRoot(tomogram_path)
    IN  base_path \o <<"_mw_", AngleText(angle_neg_deg), "_",
                       AngleText(angle_pos_deg), ".mrc">>

\* addWedge.py add_missing_wedge(tomogram_path, angles), its outcome kept
\* under `call'
Add_missing_wedgeCall(call, angles) ==
    /\ args.tomogram_path \in DOMAIN fs
    /\ LET tomo          == fs[args.tomogram_path]
           angle_neg     == Deg2Rad(angles[1])
           angle_pos     == Deg2Rad(angles[2])
           mask          == MissingWedgeMask(tomo.shape, angle_neg, angle_pos)
           tomogram_fft  == ZeroWhere(Fftn(tomo), mask)
           with_wedge    == IfftnReal(tomo, tomogram_fft)
           new_path      == MissingWedgePath(args.tomogram_path, angles)
       IN  /\ fs' = WriteFile(fs, new_path, with_wedge)
           /\ ret' = [ret EXCEPT ![call] =
                         [raised             |-> "None",
                          kx                 |-> FrequencyAxis(tomo.shape[1]),
                          ky                 |-> FrequencyAxis(tomo.shape[2]),
                          kz                 |-> FrequencyAxis(tomo.shape[3]),
                          missing_wedge_mask |-> mask,
                          tomogram_fft       |-> tomogram_fft,
                          volume             |-> with_wedge,
                          new_path           |-> new_path]]
    /\ UNCHANGED <<args, dirs>>

\* addWedge.py add_missing_wedge(tomogram_path, angles)
Add_missing_wedge == Add_missing_wedgeCall("add_missing_wedge", args.angles)

\* a second invocation on the same input, with another angle pair
Add_missing_wedge_again == Add_missing_wedgeCall("add_missing_wedge_again", args.other_angles)

HalfAngleMaskAbove(shape, angle) ==
    LET k0 == FrequencyAxis(shape[1])
        k2 == FrequencyAxis(shape[3])
    IN  {idx \in Indices(shape) :
            Greater(Arctan2(Abs(k2[idx[3]]), Abs(k0[idx[1]])), angle)}

\* The half-angle variant: mask true where atan2(|kAxis2|, |kAxis0|) < angle.
HalfAngleMask(shape, angle) ==
    LET k0 == FrequencyAxis(shape[1])
        k2 == FrequencyAxis(shape[3])
    IN  {idx \in Indices(shape) :
            Less(Arctan2(Abs(k2[idx[3]]), Abs(k0[idx[1]])), angle)}

\* applyWedgeByHalfAngle(volume, angleDeg), its outcome kept under `call'
ApplyWedgeByHalfAngleCall(call, angleDeg) ==
    /\ args.tomogram_path \in DOMAIN fs
    /\ LET tomo         == fs[args.tomogram_path]
           mask         == HalfAngleMask(tomo.shape, Deg2Rad(angleDeg))
           tomogram_fft == ZeroWhere(Fftn(tomo), mask)
       IN  ret' = [ret EXCEPT ![call] =
                      [raised             |-> "None",
                       angle              |-> angleDeg,
                       missing_wedge_mask |-> mask,
                       volume             |-> IfftnReal(tomo, tomogram_fft)]]
    /\ UNCHANGED <<args, fs, dirs>>

\* applyWedgeByHalfAngle(volume, angleDeg)
ApplyWedgeByHalfAngle ==
    ApplyWedgeByHalfAngleCall("applyWedgeByHalfAngle", args.half_angle)

\* a second call of the half-angle variant on the same volume
ApplyWedgeByOtherHalfAngle ==
    ApplyWedgeByHalfAngleCall("applyWedgeByOtherHalfAngle", args.other_half_angle)

(***************************************************************************)
(* The masker's sessions: a tomogram of some shape, an angle pair for the  *)
(* symmetric-range variant and a half-angle for the half-angle variant.    *)
(***************************************************************************)
WedgeAngles ==
    {Deg(d) : d \in {-270, -180, -90, -60, -45, -30, 0, 30, 45, 60, 90, 180, 270}}

Shapes == (1..MaxAxis) \X {1, 2} \X (1..MaxAxis)

HalfAngles == {Deg(30), Deg(45), Deg(60)}

WedgeFunctions == {"add_missing_wedge", "applyWedgeByHalfAngle"}

InitWedge ==
    /\ args \in [tomogram_path : {TomogramPath},
                 angles        : WedgeAngles \X WedgeAngles,
                 half_angle    : HalfAngles]
    /\ \E shape \in Shapes : fs = [p \in {TomogramPath} |-> Volume(shape, <<>>)]
    /\ dirs = {<<"data">>}
    /\ ret = [f \in WedgeFunctions |-> NotRun]

NextWedge ==
    \/ Add_missing_wedge
    \/ ApplyWedgeByHalfAngle

SpecWedge == InitWedge /\ [][NextWedge]_vars

(***************************************************************************)
(* Sessions of two invocations of add_missing_wedge on one input.          *)
(***************************************************************************)
RepeatAngles == {Deg(d) : d \in {-60, -30, 0, 30, 60}}

RepeatShapes == {<<3, 1, 3>>, <<4, 2, 4>>}

RepeatCalls == {"add_missing_wedge", "add_missing_wedge_again"}

InitRepeat ==
    /\ args \in [tomogram_path : {TomogramPath},
                 angles        : RepeatAngles \X RepeatAngles,
                 other_angles  : RepeatAngles \X RepeatAngles]
    /\ \E shape \in RepeatShapes : fs = [p \in {TomogramPath} |-> Volume(shape, <<>>)]
    /\ dirs = {<<"data">>}
    /\ ret = [f \in RepeatCalls |-> NotRun]

NextRepeat ==
    \/ Add_missing_wedge
    \/ Add_missing_wedge_again

SpecRepeat == InitRepeat /\ [][NextRepeat]_vars

(***************************************************************************)
(* Sessions of the half-angle variant alone: one volume masked at two      *)
(* half-angles of [0, 90) degrees.                                         *)
(***************************************************************************)
HalfAngleRange == {Deg(d) : d \in {0, 15, 30, 45, 60, 75}}

HalfAngleCalls == {"applyWedgeByHalfAngle", "applyWedgeByOtherHalfAngle"}

InitHalfAngle ==
    /\ args \in [tomogram_path    : {TomogramPath},
                 half_angle       : HalfAngleRange,
                 other_half_angle : HalfAngleRange]
    /\ \E shape \in Shapes : fs = [p \in {TomogramPath} |-> Volume(shape, <<>>)]
    /\ dirs = {<<"data">>}
    /\ ret = [f \in HalfAngleCalls |-> NotRun]

NextHalfAngle ==
    \/ ApplyWedgeByHalfAngle
    \/ ApplyWedgeByOtherHalfAngle

SpecHalfAngle == InitHalfAngle /\ [][NextHalfAngle]_vars

(***************************************************************************)
(* Chunked binning (binning.py).  A voxel is held as the set of the        *)
(* tomogram's samples and the number of padding zeros it averages.         *)
(***************************************************************************)
\* the voxel of the loaded tomogram at idx
Sample(idx) == [samples |-> {idx}, zeros |-> 0]

\* a voxel added by np.pad(..., constant_values=0)
PadZero == [samples |-> {}, zeros |-> 1]

RangeInclusive(stop, step) ==
    [i \in 1..(stop \div step + 1) |-> (i - 1) * step]

\* list(range(0, stop, step)) for step >= 1
Range(stop, step) ==
    [i \in 1..((stop + step - 1) \div step) |-> (i - 1) * step]

Min(a, b) == IF a <= b THEN a ELSE b

\* tomogram[z:z_end, y:y_end, x:x_end] padded with zeros up to chunk_size
PaddedChunk(shape, chunk_size, z, y, x) ==
    LET z_end == Min(z + chunk_size[1], shape[1])
        y_end == Min(y + chunk_size[2], shape[2])
        x_end == Min(x + chunk_size[3], shape[3])
    IN  [shape |-> chunk_size,
         at    |-> [idx \in Indices(chunk_size) |->
                       IF z + idx[1] < z_end /\ y + idx[2] < y_end /\ x + idx[3] < x_end
                       THEN Sample(<<z + idx[1], y + idx[2], x + idx[3]>>)
                       ELSE PadZero]]

\* binning.py process_chunk(tomogram_chunk, bin_factor)
Process_chunk(tomogram_chunk, bin_factor) ==
    LET new_shape == <<tomogram_chunk.shape[1] \div bin_factor,
                       tomogram_chunk.shape[2] \div bin_factor,
                       tomogram_chunk.shape[3] \div bin_factor>>
        Block(idx) == {<<idx[1] * bin_factor + d[1],
                         idx[2] * bin_factor + d[2],
                         idx[3] * bin_factor + d[3]>> : d \in Indices(<<bin_factor, bin_factor, bin_factor>>)}
    IN  [shape |-> new_shape,
         at    |-> [idx \in Indices(new_shape) |->
                       [samples |-> UNION {tomogram_chunk.at[e].samples : e \in Block(idx)},
                        zeros   |-> Cardinality({e \in Block(idx) : tomogram_chunk.at[e].zeros > 0})]]]

\* np.concatenate(chunks, axis=0) of equally shaped chunks
Concatenate(chunks) ==
    LET each == chunks[1].shape
    IN  [shape |-> <<Len(chunks) * each[1], each[2], each[3]>>,
         at    |-> [idx \in Indices(<<Len(chunks) * each[1], each[2], each[3]>>) |->
                       chunks[(idx[1] \div each[1]) + 1].at[<<idx[1] % each[1], idx[2], idx[3]>>]]]

\* binning.py process_in_chunks(filename, chunk_size, overlap, bin_factor)
Process_in_chunks(tomogram, chunk_size, overlap, bin_factor) ==
    LET z_chunks == Range(tomogram.shape[1], chunk_size[1] - overlap[1])
        y_chunks == Range(tomogram.shape[2], chunk_size[2] - overlap[2])
        x_chunks == Range(tomogram.shape[3], chunk_size[3] - overlap[3])
        ny == Len(y_chunks)
        nx == Len(x_chunks)
        binned_chunks ==
            [n \in 1..(Len(z_chunks) * ny * nx) |->
                LET z == z_chunks[((n - 1) \div (ny * nx)) + 1]
                    y == y_chunks[(((n - 1) \div nx) % ny) + 1]
                    x == x_chunks[((n - 1) % nx) + 1]
                IN  Process_chunk(PaddedChunk(tomogram.shape, chunk_size, z, y, x), bin_factor)]
    IN  Concatenate(binned_chunks)

\* filename.split('.')[0]
BeforeFirstDot(filename) ==
    LET dots == {i \in 1..Len(filename) : filename[i] \in Extensions}
    IN  IF dots = {} THEN filename
        ELSE SubSeq(filename, 1, (CHOOSE i \in dots : \A j \in dots : i <= j) - 1)

\* binning.py bin_tomogram(filename, chunk_size, overlap, bin_factor)
Bin_tomogram ==
    /\ args.filename \in DOMAIN fs
    /\ LET binned_tomogram == Process_in_chunks(fs[args.filename], args.chunk_size,
                                                args.overlap, args.bin_factor)
           output_filename == BeforeFirstDot(args.filename)
                                  \o <<"_", ToString(args.bin_factor), "x_binned", ".mrc">>
       IN  /\ fs' = WriteFile(fs, output_filename,
                        Volume(binned_tomogram.shape,
                               <<[op |-> "bin", voxels |-> binned_tomogram.at]>>))
           /\ ret' = [ret EXCEPT !["bin_tomogram"] =
                         [raised |-> "None", output_filename |-> output_filename]]
    /\ UNCHANGED <<args, dirs>>

\* chunk sizes with the default's proportions: the overlap is half the chunk
ChunkSizes == {<<2, 2, 2>>, <<4, 4, 4>>, <<4, 2, 4>>}

HalfOf(chunk_size) == <<chunk_size[1] \div 2, chunk_size[2] \div 2, chunk_size[3] \div 2>>

BinFactors == {1, 2}

InitBin ==
    /\ \E chunk_size \in ChunkSizes :
           args \in [filename   : {TomogramPath},
                     chunk_size : {chunk_size},
                     overlap    : {HalfOf(chunk_size)},
                     bin_factor : BinFactors]
    /\ \E shape \in (1..MaxAxis) \X (1..MaxAxis) \X (1..MaxAxis) :
           fs = [p \in {TomogramPath} |-> Volume(shape, <<>>)]
    /\ dirs = {<<"data">>}
    /\ ret = [f \in {"bin_tomogram"} |-> NotRun]

NextBin == Bin_tomogram

SpecBin == InitBin /\ [][NextBin]_vars

(***************************************************************************)
(* Sessions of process_in_chunks alone, over every overlap below the chunk *)
(* size.                                                                   *)
(***************************************************************************)
\* the chunks of the three nested loops, in order: where each starts and
\* ends, the widths it is padded by and the shape of the padded chunk
ExtractedChunks(shape, chunk_size, overlap) ==
    LET z_chunks == Range(shape[1], chunk_size[1] - overlap[1])
        y_chunks == Range(shape[2], chunk_size[2] - overlap[2])
        x_chunks == Range(shape[3], chunk_size[3] - overlap[3])
        ny == Len(y_chunks)
        nx == Len(x_chunks)
    IN  [n \in 1..(Len(z_chunks) * ny * nx) |->
            LET z == z_chunks[((n - 1) \div (ny * nx)) + 1]
                y == y_chunks[(((n - 1) \div nx) % ny) + 1]
                x == x_chunks[((n - 1) % nx) + 1]
                z_end == Min(z + chunk_size[1], shape[1])
                y_end == Min(y + chunk_size[2], shape[2])
                x_end == Min(x + chunk_size[3], shape[3])
                \* tomogram[z:z_end]: an end before the start gives an empty slice
                chunk_shape == <<IF z_end > z THEN z_end - z ELSE 0,
                                 IF y_end > y THEN y_end - y ELSE 0,
                                 IF x_end > x THEN x_end - x ELSE 0>>
                pad == <<chunk_size[1] - chunk_shape[1],
                         chunk_size[2] - chunk_shape[2],
                         chunk_size[3] - chunk_shape[3]>>
            IN  [start        |-> <<z, y, x>>,
                 end          |-> <<z_end, y_end, x_end>>,
                 chunk_shape  |-> chunk_shape,
                 pad          |-> pad,
                 padded_shape |-> <<chunk_shape[1] + pad[1], chunk_shape[2] + pad[2],
                                    chunk_shape[3] + pad[3]>>]]

\* binning.py process_in_chunks(filename, chunk_size, overlap, bin_factor);
\* np.pad raises ValueError for a negative width
Process_in_chunks_call ==
    /\ args.filename \in DOMAIN fs
    /\ LET tomogram == fs[args.filename]
           chunks   == ExtractedChunks(tomogram.shape, args.chunk_size, args.overlap)
       IN  IF \E n \in DOMAIN chunks : \E a \in 1..3 : chunks[n].pad[a] < 0
           THEN ret' = [ret EXCEPT !["process_in_chunks"] =
                           [raised |-> "ValueError", chunks |-> chunks]]
           ELSE ret' = [ret EXCEPT !["process_in_chunks"] =
                           [raised |-> "None",
                            chunks |-> chunks,
                            final_binned_volume_shape |->
                                Process_in_chunks(tomogram, args.chunk_size, args.overlap,
                                                  args.bin_factor).shape]]
    /\ UNCHANGED <<args, fs, dirs>>

ChunkEdges == {1, 2, 3}

\* every chunk_size and overlap with 0 <= overlap < chunk_size on each axis
InitChunks ==
    /\ args \in {a \in [filename   : {TomogramPath},
                        chunk_size : ChunkEdges \X ChunkEdges \X ChunkEdges,
                        overlap    : (0..2) \X (0..2) \X (0..2),
                        bin_factor : {2}] :
                    \A axis \in 1..3 : a.overlap[axis] < a.chunk_size[axis]}
    /\ \E shape \in (1..MaxAxis) \X (1..MaxAxis) \X (1..MaxAxis) :
           fs = [p \in {TomogramPath} |-> Volume(shape, <<>>)]
    /\ dirs = {<<"data">>}
    /\ ret = [f \in {"process_in_chunks"} |-> NotRun]

NextChunks == Process_in_chunks_call

SpecChunks == InitChunks /\ [][NextChunks]_vars

(***************************************************************************)
(* The synthetic volumes of random spheres (mkRandomSpheres of             *)
(* mkTomogram.py and of makemrc.py).  The volumes and the spheres are      *)
(* scaled down; a run of the function is held in ret as its frame: where   *)
(* it stands (pc), its locals, what it has printed and, for the record,    *)
(* how each sphere's loop ended (history) and how many spheres were added  *)
(* (placements).  One step is one attempt of the placement loop.           *)
(***************************************************************************)
SphereFunctions == {"mkTomogram.mkRandomSpheres", "makemrc.mkRandomSpheres"}

\* mkTomogram.py: dim, outer_radius, inner_radius, thickness
Dim == <<5, 9, 6>>
OuterRadius == 2
InnerRadius == 1
Thickness == 1

SquaredDistance(o, center) ==
    (o[1] - center[1]) * (o[1] - center[1]) + (o[2] - center[2]) * (o[2] - center[2])
        + (o[3] - center[3]) * (o[3] - center[3])

\* mkTomogram.py getSphere(x, y, z, center, radius, thickness), as the set of
\* the grid points of the shell
GetSphere(grid, center, radius, thickness) ==
    {o \in grid : /\ SquaredDistance(o, center) <= radius * radius
                  /\ SquaredDistance(o, center) >= (radius - thickness) * (radius - thickness)}

\* the dimensions of the volume
SphereVolumeDim(f) ==
    IF f = "mkTomogram.mkRandomSpheres" THEN Dim ELSE <<VolumeSize, VolumeSize, VolumeSize>>

\* the radius the centres and the bounding box are taken from
SphereRadius(f) ==
    IF f = "mkTomogram.mkRandomSpheres" THEN OuterRadius ELSE args.sphere_radius

\* the edge of a sphere's bounding box: 2 r + 1 in mkTomogram.py, 2 r in makemrc.py
SphereBoxEdge(f) ==
    IF f = "mkTomogram.mkRandomSpheres" THEN 2 * OuterRadius + 1 ELSE 2 * args.sphere_radius

\* the sphere mask, as the set of the points of the bounding box it holds
SphereMask(f) ==
    LET edge == SphereBoxEdge(f)
        grid == Indices(<<edge, edge, edge>>)
    IN  IF f = "mkTomogram.mkRandomSpheres"
        THEN LET center == <<OuterRadius, OuterRadius, OuterRadius>>
             IN  GetSphere(grid, center, InnerRadius, Thickness)
                     \cup GetSphere(grid, center, OuterRadius, Thickness)
        ELSE {o \in grid :
                 SquaredDistance(o, <<args.sphere_radius, args.sphere_radius, args.sphere_radius>>)
                     <= args.sphere_radius * args.sphere_radius}

\* np.random.randint(low, high): the values it may return
Randint(low, high) == low..(high - 1)

\* the centres an attempt may draw
SphereCentres(f) ==
    LET r   == SphereRadius(f)
        dim == SphereVolumeDim(f)
    IN  Randint(r, dim[1] - r) \X Randint(r, dim[2] - r) \X Randint(r, dim[3] - r)

\* the voxels of the bounding box of a sphere centred at c
SphereBox(f, c) ==
    LET r    == SphereRadius(f)
        edge == SphereBoxEdge(f)
    IN  {<<c[1] - r + o[1], c[2] - r + o[2], c[3] - r + o[3]>> : o \in Indices(<<edge, edge, edge>>)}

\* the voxels the mask holds when the sphere is centred at c
SphereVoxels(f, c) ==
    LET r == SphereRadius(f)
    IN  {<<c[1] - r + o[1], c[2] - r + o[2], c[3] - r + o[3]>> : o \in SphereMask(f)}

NoOverlapUnchecked(f, volume, c) == TRUE

\* np.all(subvolume + sphere_mask <= 1.0)
NoOverlap(f, volume, c) ==
    LET sphere == SphereVoxels(f, c)
    IN  \A v \in SphereBox(f, c) :
            volume[v] + (IF v \in sphere THEN 1 ELSE 0) <= 1

WhileConditionIgnoringPlaced(frame, max_attempts) == frame.attempts < max_attempts

\* while not placed and attempts < max_attempts
WhileCondition(frame, max_attempts) ==
    ~frame.placed /\ frame.attempts < max_attempts

\* num_spheres: a local of mkTomogram.py, an argument of makemrc.py
NumSpheres(f) ==
    IF f = "mkTomogram.mkRandomSpheres" THEN MaxSpheres ELSE args.num_spheres

\* the output path: filepath in mkTomogram.py, f'{filename}.mrc' in makemrc.py
SpheresPath(f) ==
    IF f = "mkTomogram.mkRandomSpheres" THEN args.filepath ELSE args.filepath \o <<".mrc">>

\* the call: the volume of zeros, the mask, max_attempts
MkRandomSpheres_call(f) ==
    /\ ret[f].raised = "NotRun"
    /\ ret' = [ret EXCEPT ![f] =
                  [raised     |-> "Running",
                   pc         |-> "for",
                   volume     |-> [v \in Indices(SphereVolumeDim(f)) |-> 0],
                   i          |-> 0,
                   placed     |-> FALSE,
                   attempts   |-> 0,
                   printed    |-> {},
                   history    |-> <<>>,
                   placements |-> 0]]
    /\ UNCHANGED <<args, fs, dirs>>

\* for i in range(num_spheres): the next sphere, or the end of the loop,
\* where the volume is saved
MkRandomSpheres_for(f) ==
    /\ ret[f].raised = "Running" /\ ret[f].pc = "for"
    /\ IF ret[f].i < NumSpheres(f)
       THEN /\ ret' = [ret EXCEPT ![f].placed = FALSE, ![f].attempts = 0, ![f].pc = "while"]
            /\ UNCHANGED fs
       ELSE /\ fs' = WriteFile(fs, SpheresPath(f),
                         Volume(SphereVolumeDim(f),
                                <<[op |-> "spheres", voxels |-> ret[f].volume]>>))
            /\ ret' = [ret EXCEPT ![f].raised = "None", ![f].pc = "done"]
    /\ UNCHANGED <<args, dirs>>

\* one pass of the while loop: a random centre, the overlap test, the
\* placement; randint raises ValueError when it has no value to return, and
\* so does numpy when a box that leaves the volume is cut short of the mask
MkRandomSpheres_attempt(f) ==
    /\ ret[f].raised = "Running" /\ ret[f].pc = "while"
    /\ WhileCondition(ret[f], MaxAttempts)
    /\ IF SphereCentres(f) = {}
       THEN ret' = [ret EXCEPT ![f].raised = "ValueError", ![f].pc = "done"]
       ELSE \E c \in SphereCentres(f) :
                IF SphereBox(f, c) \subseteq DOMAIN ret[f].volume
                THEN IF NoOverlap(f, ret[f].volume, c)
                     THEN ret' = [ret EXCEPT
                                     ![f].volume =
                                         LET sphere == SphereVoxels(f, c)
                                         IN  [v \in DOMAIN ret[f].volume |->
                                                 IF v \in sphere
                                                 THEN ret[f].volume[v] + 1
                                                 ELSE ret[f].volume[v]],
                                     ![f].placed = TRUE,
                                     ![f].placements = ret[f].placements + 1,
                                     ![f].attempts = ret[f].attempts + 1]
                     ELSE ret' = [ret EXCEPT ![f].attempts = ret[f].attempts + 1]
                ELSE ret' = [ret EXCEPT ![f].raised = "ValueError", ![f].pc = "done"]
    /\ UNCHANGED <<args, fs, dirs>>

\* the while loop has ended: the warning if the sphere was not placed
MkRandomSpheres_placed(f) ==
    /\ ret[f].raised = "Running" /\ ret[f].pc = "while"
    /\ ~WhileCondition(ret[f], MaxAttempts)
    /\ ret' = [ret EXCEPT
                  ![f].printed = IF ret[f].placed THEN ret[f].printed
                                 ELSE ret[f].printed \cup {ret[f].i + 1},
                  ![f].history = Append(ret[f].history,
                                        [placed |-> ret[f].placed, attempts |-> ret[f].attempts]),
                  ![f].i = ret[f].i + 1,
                  ![f].pc = "for"]
    /\ UNCHANGED <<args, fs, dirs>>

SphereRadii == {0, 1, 2}

SpheresFilepath == <<"data", "/", "randomSpheres">>

InitSpheres ==
    /\ \E f \in SphereFunctions :
          /\ ret = [g \in {f} |-> NotRun]
          /\ IF f = "mkTomogram.mkRandomSpheres"
             THEN args \in [filepath : {SpheresFilepath \o <<".mrc">>}]
             ELSE args \in [filepath      : {SpheresFilepath},
                            num_spheres   : 0..MaxSpheres,
                            sphere_radius : SphereRadii]
    /\ fs = <<>>
    /\ dirs = {<<"data">>}

NextSpheres ==
    \E f \in DOMAIN ret :
        \/ MkRandomSpheres_call(f)
        \/ MkRandomSpheres_for(f)
        \/ MkRandomSpheres_attempt(f)
        \/ MkRandomSpheres_placed(f)

SpecSpheres == InitSpheres /\ [][NextSpheres]_vars

\* the loop is sequential code: a step that can be taken is taken
SpecSpheresFair == SpecSpheres /\ WF_vars(NextSpheres)

(***************************************************************************)
(* The image-stack exporters (plot.py).                                    *)
(***************************************************************************)
Planes == {"XY", "XZ", "YZ"}

SelectSlicesDefaultXY(shape, plane) ==
    CASE plane = "XZ" -> [raised |-> "None", shape |-> <<shape[2], shape[1], shape[3]>>]
      [] plane = "YZ" -> [raised |-> "None", shape |-> <<shape[3], shape[1], shape[2]>>]
      [] OTHER        -> [raised |-> "None", shape |-> shape]

\* the if / elif / else on plane: the shape of the stack of slices, or the
\* ValueError
SelectSlices(shape, plane) ==
    CASE plane = "XY" -> [raised |-> "None", shape |-> shape]
      [] plane = "XZ" -> [raised |-> "None", shape |-> <<shape[2], shape[1], shape[3]>>]
      [] plane = "YZ" -> [raised |-> "None", shape |-> <<shape[3], shape[1], shape[2]>>]
      [] OTHER        -> [raised |-> "ValueError", shape |-> <<>>]

\* os.makedirs(d, exist_ok=True): d and the directories above it
Makedirs(existing, d) ==
    existing \cup {d} \cup {SubSeq(d, 1, i - 1) : i \in {j \in 2..Len(d) : d[j] = "/"}}

\* f'frame_{i:04d}.png'
FrameName(i) ==
    <<"frame_", IF i < 10 THEN "000" ELSE IF i < 100 THEN "00" ELSE "0", ToString(i), ".png">>

\* the loop over the slices: one png per slice
SaveFrames(files, save_dir, slices, plane, of) ==
    LET n      == slices.shape[1]
        frames == {PathJoin(save_dir, FrameName(i)) : i \in 0..(n - 1)}
        number(q) == CHOOSE i \in 0..(n - 1) : q = PathJoin(save_dir, FrameName(i))
    IN  [q \in (DOMAIN files) \cup frames |->
            IF q \in frames
            THEN Volume(<<slices.shape[2], slices.shape[3]>>,
                        <<[op |-> "frame", of |-> of, plane |-> plane, i |-> number(q)]>>)
            ELSE files[q]]

\* the body shared by mkImageStack and mkPowerSpectrum, from the selection
\* of the slices on; suffix is the default directory's suffix
ExportStack(f, of, suffix) ==
    /\ args.tomogram_path \in DOMAIN fs
    /\ LET tomo   == fs[args.tomogram_path]
           slices == SelectSlices(tomo.shape, args.plane)
       IN  IF slices.raised # "None"
           THEN /\ ret' = [ret EXCEPT ![f] = [raised |-> slices.raised, save_dir |-> <<>>, frames |-> 0]]
                /\ UNCHANGED <<fs, dirs>>
           ELSE LET base_path == SplitextRoot(args.tomogram_path)
                    base_name == Basename(base_path)
                    save_dir  == IF args.save_dir # <<>>
                                 THEN args.save_dir
                                 ELSE PathJoin(Dirname(args.tomogram_path), base_name) \o <<suffix>>
                IN  /\ dirs' = Makedirs(dirs, save_dir)
                    /\ fs' = SaveFrames(fs, save_dir, slices, args.plane, of)
                    /\ ret' = [ret EXCEPT ![f] = [raised |-> "None", save_dir |-> save_dir,
                                                  frames |-> slices.shape[1]]]
    /\ UNCHANGED args

\* plot.py mkImageStack(tomogram_path, plane, save_dir)
MkImageStack == ExportStack("mkImageStack", "tomogram", "_image_stack")

\* plot.py mkPowerSpectrum(tomogram_path, plane, save_dir)
MkPowerSpectrum == ExportStack("mkPowerSpectrum", "power_spectrum", "_image_stack_ps")

PlotFunctions == {"mkImageStack", "mkPowerSpectrum"}

PlaneArguments == Planes \cup {"ZX", "xy", ""}

InitPlot ==
    /\ args \in [tomogram_path : {TomogramPath},
                 plane         : PlaneArguments,
                 save_dir      : {<<>>, <<"out">>, <<"out", "/", "frames">>}]
    /\ \E shape \in Shapes : fs = [p \in {TomogramPath} |-> Volume(shape, <<>>)]
    /\ dirs = {<<"data">>}
    /\ ret = [f \in PlotFunctions |-> NotRun]

NextPlot ==
    \/ MkImageStack
    \/ MkPowerSpectrum

SpecPlot == InitPlot /\ [][NextPlot]_vars

(***************************************************************************)
(* Properties of the wedge aligner.                                        *)
(***************************************************************************)
TiltStart == args.angles[1]
TiltEnd   == args.angles[2]

HasRun(f) == ret[f].raised # "NotRun"

\* C1: under the half-difference convention (alignWedge.py) the rotation
\* angle of the tilt range (start, end) is (|start| - |end|) / 2: twice the
\* rotation is |start| - |end|, the range (-60, 30) yields 15 and every
\* symmetric range (-a, a) yields 0.
C1_HalfDifferenceRotation ==
    HasRun("alignWedge") =>
        LET r == ret["alignWedge"].rotation_angle
        IN  /\ 2 * r = Abs(TiltStart) - Abs(TiltEnd)
            /\ (TiltStart = Deg(-60) /\ TiltEnd = Deg(30)) => r = Deg(15)
            /\ (TiltStart = -TiltEnd) => r = 0

C1_Witness ==
    /\ HasRun("alignWedge")
    /\ args.angles = <<Deg(-60), Deg(30)>>
    /\ ret["alignWedge"].rotation_angle = Deg(15)

\* C2: under the complement convention (rotate.py and rotateTomo.py)
\* wedgeStart = 90 + start, wedgeEnd = 90 - end and
\* rotation = wedgeEnd - (wedgeStart + wedgeEnd) / 2; the range (-60, 30)
\* gives wedgeStart = 30, wedgeEnd = 60, sum = 90 and rotation = 15.
C2_ComplementRotation ==
    \A f \in {"rotate", "rotateTomo"} :
        HasRun(f) =>
            LET c == ret[f]
            IN  /\ c.wedge_angle_start = Deg(90) + TiltStart
                /\ c.wedge_angle_end = Deg(90) - TiltEnd
                /\ c.wedge_angle_sum = c.wedge_angle_start + c.wedge_angle_end
                /\ 2 * c.rotation_angle = 2 * c.wedge_angle_end - c.wedge_angle_sum
                /\ (TiltStart = Deg(-60) /\ TiltEnd = Deg(30)) =>
                       /\ c.wedge_angle_start = Deg(30)
                       /\ c.wedge_angle_end = Deg(60)
                       /\ c.wedge_angle_sum = Deg(90)
                       /\ c.rotation_angle = Deg(15)

C2_Witness ==
    /\ HasRun("rotate")
    /\ HasRun("rotateTomo")
    /\ args.angles = <<Deg(-60), Deg(30)>>
    /\ ret["rotate"].rotation_angle = Deg(15)
    /\ ret["rotateTomo"].wedge_angle_sum = Deg(90)

\* C3: for every tilt range with start <= 0 <= end and each convention,
\* shifting both ends by the computed rotation gives a range centred on
\* zero: start + rotation = -(end + rotation).
C3_RotationSymmetrizes ==
    \A f \in AlignFunctions :
        (HasRun(f) /\ TiltStart <= 0 /\ 0 <= TiltEnd) =>
            TiltStart + ret[f].rotation_angle = -(TiltEnd + ret[f].rotation_angle)

C3_Witness ==
    /\ \A f \in AlignFunctions : HasRun(f)
    /\ TiltStart < 0 /\ 0 < TiltEnd /\ TiltStart # -TiltEnd
    /\ TiltStart + ret["alignWedge"].rotation_angle = -(TiltEnd + ret["alignWedge"].rotation_angle)
    /\ TiltStart + ret["rotate"].rotation_angle = -(TiltEnd + ret["rotate"].rotation_angle)

\* How far the centre of the range lies from zero (doubled).
Asymmetry == Abs(TiltStart + TiltEnd)

BothConventionsRun == HasRun("alignWedge") /\ HasRun("rotate")

ConventionsAgree == ret["alignWedge"].rotation_angle = ret["rotate"].rotation_angle

\* C4 as stated: the two conventions agree on symmetric and near-symmetric
\* tilt ranges (centre within 15 degrees of zero) and differ on strongly
\* asymmetric ones (centre 60 degrees or more from zero).
C4_DivergeOnExtremeRanges ==
    (BothConventionsRun /\ TiltStart < TiltEnd) =>
        /\ Asymmetry <= Deg(15) => ConventionsAgree
        /\ Asymmetry >= Deg(60) => ~ConventionsAgree

\* C4 amended: the two conventions give the same rotation for every range
\* with start <= 0 <= end, however asymmetric; they differ exactly for the
\* ranges that break that sign convention and are not of the form (a, -a).
C4_AgreeUnderSignConvention ==
    BothConventionsRun =>
        (ConventionsAgree <=>
            \/ (TiltStart <= 0 /\ 0 <= TiltEnd)
            \/ TiltStart = -TiltEnd)

C4_Witness ==
    /\ BothConventionsRun
    /\ TiltStart <= 0 /\ 0 <= TiltEnd
    /\ Asymmetry >= Deg(60)
    /\ ConventionsAgree
    /\ ret["rotate"].rotation_angle # 0

\* C8: the wedge aligner fails with an invalid-parameter error, before
\* rotating or writing anything, whenever start >= end, and accepts every
\* range with start < end.
C8_RejectsDegenerateRange ==
    \A f \in {"alignWedge", "rotate"} :
        HasRun(f) =>
            IF TiltStart >= TiltEnd
            THEN ret[f].raised = "ValueError" /\ ret[f].save_path \notin DOMAIN fs
            ELSE ret[f].raised = "None" /\ ret[f].save_path \in DOMAIN fs

(***************************************************************************)
(* Properties of the missing-wedge masker.                                 *)
(***************************************************************************)
WedgeStart == args.angles[1]
WedgeEnd   == args.angles[2]

TomoShape == fs[args.tomogram_path].shape

\* The frequency coordinate of index i on an axis of length n, in FFT order.
Freq(i, n) == IF 2 * i < n THEN i ELSE i - n

\* theta of the coefficient at frequency coordinates (y, x) lies outside
\* the range [WedgeStart, WedgeEnd]
OutsideRange(y, x) ==
    \/ Less(Arctan2(y, x), Deg2Rad(WedgeStart))
    \/ Greater(Arctan2(y, x), Deg2Rad(WedgeEnd))

Zeroed(idx) == ret["add_missing_wedge"].tomogram_fft[idx] = ZeroCoeff

Unchanged(idx) == ret["add_missing_wedge"].tomogram_fft[idx] = Fftn(fs[args.tomogram_path])[idx]

\* C5 as stated: the coefficient at (kAxis0, kAxis1, kAxis2) is zeroed
\* exactly when theta = atan2(kAxis2, kAxis0) is below the negative angle or
\* above the positive angle; every other coefficient is left unchanged.
C5_ThetaFromAxis2OverAxis0 ==
    HasRun("add_missing_wedge") =>
        \A idx \in Indices(TomoShape) :
            LET kAxis0 == Freq(idx[1], TomoShape[1])
                kAxis2 == Freq(idx[3], TomoShape[3])
            IN  IF OutsideRange(kAxis2, kAxis0) THEN Zeroed(idx) ELSE Unchanged(idx)

\* C5 amended: the coefficient at (kAxis0, kAxis1, kAxis2) is zeroed exactly
\* when theta = atan2(kAxis0, kAxis2) is below the negative angle or above
\* the positive angle; every other coefficient is left unchanged.
C5_ThetaFromAxis0OverAxis2 ==
    HasRun("add_missing_wedge") =>
        \A idx \in Indices(TomoShape) :
            LET kAxis0 == Freq(idx[1], TomoShape[1])
                kAxis2 == Freq(idx[3], TomoShape[3])
            IN  IF OutsideRange(kAxis0, kAxis2) THEN Zeroed(idx) ELSE Unchanged(idx)

\* a range (-60, 30) on a 4 x n x 4 volume: (kAxis0, kAxis2) = (1, 0) has
\* atan2(kAxis0, kAxis2) = 90 degrees and is zeroed, (0, 1) is kept
C5_Witness ==
    /\ HasRun("add_missing_wedge")
    /\ args.angles = <<Deg(-60), Deg(30)>>
    /\ TomoShape[1] = 4 /\ TomoShape[3] = 4
    /\ Zeroed(<<1, 0, 0>>)
    /\ Unchanged(<<0, 0, 1>>) /\ ~Zeroed(<<0, 0, 1>>)

C7_SymmetricRangeEqualsHalfAngle ==
    ( /\ HasRun("add_missing_wedge")
      /\ HasRun("applyWedgeByHalfAngle")
      /\ 0 < WedgeEnd /\ WedgeEnd < Deg(90)
      /\ WedgeStart = -WedgeEnd
      /\ args.half_angle = Deg(90) - WedgeEnd ) =>
        /\ ret["add_missing_wedge"].missing_wedge_mask
               = ret["applyWedgeByHalfAngle"].missing_wedge_mask
        /\ ret["add_missing_wedge"].volume = ret["applyWedgeByHalfAngle"].volume

OutsideConvention == ~(WedgeStart <= 0 /\ 0 <= WedgeEnd)

\* C10 as stated: for any angle pair outside start <= 0 <= end the masker
\* raises no error and the mask is true everywhere or false everywhere.
C10_DegenerateMask ==
    (HasRun("add_missing_wedge") /\ OutsideConvention) =>
        /\ ret["add_missing_wedge"].raised = "None"
        /\ \/ ret["add_missing_wedge"].missing_wedge_mask = Indices(TomoShape)
           \/ ret["add_missing_wedge"].missing_wedge_mask = {}

\* C10 amended: for any angle pair outside start <= 0 <= end the masker
\* raises no error and the mask is what the arithmetic yields: it is true at
\* the zero-frequency coefficients (so never false everywhere), and it is
\* true everywhere whenever start > end.
C10_ArithmeticMask ==
    (HasRun("add_missing_wedge") /\ OutsideConvention) =>
        LET mask == ret["add_missing_wedge"].missing_wedge_mask
        IN  /\ ret["add_missing_wedge"].raised = "None"
            /\ \A idx \in Indices(TomoShape) : (idx[1] = 0 /\ idx[3] = 0) => idx \in mask
            /\ WedgeStart > WedgeEnd => mask = Indices(TomoShape)

\* the pair (30, 60): the mask is true at DC and false at 45 degrees
C10_Witness ==
    /\ HasRun("add_missing_wedge")
    /\ args.angles = <<Deg(30), Deg(60)>>
    /\ TomoShape[1] >= 2 /\ TomoShape[3] >= 2
    /\ <<0, 0, 0>> \in ret["add_missing_wedge"].missing_wedge_mask
    /\ <<1, 0, 1>> \notin ret["add_missing_wedge"].missing_wedge_mask

\* the pair (60, -30): the mask is true everywhere
C10_WitnessInverted ==
    /\ HasRun("add_missing_wedge")
    /\ args.angles = <<Deg(60), Deg(-30)>>
    /\ TomoShape[1] >= 2 /\ TomoShape[3] >= 2
    /\ ret["add_missing_wedge"].missing_wedge_mask = Indices(TomoShape)

(***************************************************************************)
(* Properties of the image-stack exporters.                                *)
(***************************************************************************)
\* C9: mkImageStack and mkPowerSpectrum raise ValueError whenever the plane
\* argument is not one of 'XY', 'XZ', 'YZ', before any output directory is
\* created or any frame is written: a rejected call leaves no output.
C9_InvalidPlaneRejected ==
    args.plane \notin {"XY", "XZ", "YZ"} =>
        /\ \A f \in PlotFunctions : HasRun(f) => ret[f].raised = "ValueError"
        /\ dirs = {<<"data">>}
        /\ DOMAIN fs = {args.tomogram_path}

C9_Witness ==
    /\ args.plane = "ZX"
    /\ args.save_dir = <<"out", "/", "frames">>
    /\ HasRun("mkImageStack") /\ ret["mkImageStack"].raised = "ValueError"
    /\ HasRun("mkPowerSpectrum") /\ ret["mkPowerSpectrum"].raised = "ValueError"
    /\ <<"out">> \notin dirs

\* an accepted call does create the directory and the frames
C9_WitnessAccepted ==
    /\ args.plane = "XZ"
    /\ args.save_dir = <<>>
    /\ HasRun("mkImageStack") /\ ret["mkImageStack"].raised = "None"
    /\ <<"data", "/", "tomo", "_image_stack">> \in dirs
    /\ <<"data", "/", "tomo", "_image_stack", "/", "frame_", "000", "0", ".png">> \in DOMAIN fs

(***************************************************************************)
(* Frame properties of the volume-transforming operations.                 *)
(***************************************************************************)
VolumeOperations == {"add_missing_wedge", "alignWedge", "rotate", "rotateTomo"}

\* the path a volume-transforming operation wrote its result to
OutputPath(f) == IF f = "add_missing_wedge" THEN ret[f].new_path ELSE ret[f].save_path

\* C11: every operation that transforms a volume (add_missing_wedge and the
\* three rotateTomogram variants) writes its output at a path different
\* from the input path, so the input file's contents are the same after the
\* operation as before, for every choice of arguments.
C11_InputFileUntouched ==
    /\ \A f \in VolumeOperations \cap DOMAIN ret :
           HasRun(f) => OutputPath(f) # args.tomogram_path
    /\ fs[args.tomogram_path].data = <<>>

\* C12: every rotateTomogram variant writes the loaded volume rotated by
\* the negated computed rotation angle in the plane of axis0 and axis2,
\* with cubic interpolation and zero fill and without reshaping: the
\* written volume has the three axis lengths of the loaded volume.
C12_RotationKeepsShape ==
    [][\E f \in AlignFunctions :
          LET loaded == fs[args.tomogram_path]
          IN  /\ ret'[f].raised = "None"
              /\ fs' = WriteFile(fs, ret'[f].save_path,
                          [shape |-> loaded.shape,
                           data  |-> Append(loaded.data,
                                        [op    |-> "rotate",
                                         angle |-> -(ret'[f].rotation_angle),
                                         axes  |-> <<0, 2>>,
                                         order |-> 3,
                                         mode  |-> "constant",
                                         cval  |-> 0])])]_vars

\* the range (-60, 30) on a 2 x 3 x 5 tomogram: all three variants have
\* written a 2 x 3 x 5 volume rotated by -15 degrees
C12_Witness ==
    /\ \A f \in AlignFunctions : HasRun(f)
    /\ args.angles = <<Deg(-60), Deg(30)>>
    /\ args.targetpath # args.tomogram_path
    /\ \A f \in AlignFunctions :
           /\ fs[ret[f].save_path].shape = <<2, 3, 5>>
           /\ fs[ret[f].save_path].data[1].angle = Deg(-15)
           /\ fs[ret[f].save_path].data[1].axes = <<0, 2>>

(***************************************************************************)
(* Further properties of the missing-wedge masker.                         *)
(***************************************************************************)
\* the index of the conjugate frequency -k, modulo the axis lengths
Conjugate(idx) ==
    <<(TomoShape[1] - idx[1]) % TomoShape[1],
      (TomoShape[2] - idx[2]) % TomoShape[2],
      (TomoShape[3] - idx[3]) % TomoShape[3]>>

\* the boundary cases: a coefficient at the Nyquist frequency of an axis, or
\* one whose theta is exactly the start or the end angle
OnBoundary(idx) ==
    LET theta == Arctan2(Freq(idx[1], TomoShape[1]), Freq(idx[3], TomoShape[3]))
    IN  \/ \E a \in 1..3 : 2 * idx[a] = TomoShape[a]
        \/ theta.lo = theta.hi /\ theta.lo \in {Deg2Rad(WedgeStart), Deg2Rad(WedgeEnd)}

\* C13: for a range with start <= 0 <= end the symmetric-range mask is
\* conjugate-symmetric apart from boundary cases: a frequency k and its
\* conjugate -k (modulo the axis lengths) are both zeroed or both kept.
C13_ConjugateSymmetricMask ==
    (HasRun("add_missing_wedge") /\ WedgeStart <= 0 /\ 0 <= WedgeEnd) =>
        \A idx \in Indices(TomoShape) :
            (~OnBoundary(idx) /\ ~OnBoundary(Conjugate(idx))) =>
                (Zeroed(idx) <=> Zeroed(Conjugate(idx)))

(***************************************************************************)
(* Monotonicity of the half-angle mask.                                    *)
(***************************************************************************)
MaskAt      == ret["applyWedgeByHalfAngle"].missing_wedge_mask
MaskAtOther == ret["applyWedgeByOtherHalfAngle"].missing_wedge_mask

BothHalfAnglesRun == HasRun("applyWedgeByHalfAngle") /\ HasRun("applyWedgeByOtherHalfAngle")

C14_WitnessEqual ==
    /\ BothHalfAnglesRun
    /\ args.half_angle = Deg(30) /\ args.other_half_angle = Deg(45)
    /\ TomoShape[1] = 4 /\ TomoShape[3] = 4
    /\ MaskAt = MaskAtOther

(***************************************************************************)
(* Properties of the command-line entry points.                            *)
(***************************************************************************)
MainOf == [alignWedge |-> "alignWedge.main", rotate |-> "rotate.main"]

\* main() of script f has rotated: rotateTomogram was reached with the
\* path, the angle pair and the save directory of the command line
ReachedRotation(f, tomogram_path, angles, save_dir) ==
    /\ ret[MainOf[f]].raised = "None"
    /\ HasRun(f)
    /\ ret[f].wedge_angle_start = (IF f = "rotate" THEN Deg(90) + angles[1] ELSE angles[1])
    /\ ret[f].wedge_angle_end = (IF f = "rotate" THEN Deg(90) - angles[2] ELSE angles[2])
    /\ ret[f].save_path = RotatedSavePath(tomogram_path, save_dir)
    /\ ret[f].save_path \in DOMAIN fs

\* C15: main() of rotate.py, run with a tomogram path and two angles,
\* reaches rotateTomogram with that path, the parsed angle pair and the save
\* directory, as main() of alignWedge.py does: argument parsing that
\* succeeds is always followed by the rotation.
C15_ParsedCommandLineRotates ==
    \A f \in DOMAIN MainOf :
        (HasRun(MainOf[f]) /\ ParseArgs(args.argv).raised = "None") =>
            LET ns == ParseArgs(args.argv).namespace
            IN  ReachedRotation(f, ns.tomogram_path, ns.angles, ns.save_dir)

\* the same for alignWedge.py alone
C15_AlignWedgeMainRotates ==
    (HasRun("alignWedge.main") /\ ParseArgs(args.argv).raised = "None") =>
        LET ns == ParseArgs(args.argv).namespace
        IN  ReachedRotation("alignWedge", ns.tomogram_path, ns.angles, ns.save_dir)

C15_WitnessAlignWedge ==
    /\ args.argv = <<TomogramPath, <<"-", "6", "0">>, <<"3", "0">>, <<"--save_dir">>, <<"out">>>>
    /\ ReachedRotation("alignWedge", TomogramPath, <<Deg(-60), Deg(30)>>, <<"out">>)
    /\ ret["alignWedge"].rotation_angle = Deg(15)
    /\ ret["rotate.main"].raised = "AttributeError"
    /\ ~HasRun("rotate")

ThetaIsZero(idx) ==
    Freq(idx[1], TomoShape[1]) = 0 /\ Freq(idx[3], TomoShape[3]) >= 0

\* C17: the zero-frequency coefficient, whose theta is atan2(0, 0) = 0, is
\* zeroed if and only if start > 0 or end < 0; for every pair with
\* start <= 0 <= end it and every coefficient whose theta is exactly 0 are
\* preserved.
C17_ZeroFrequencyMembership ==
    HasRun("add_missing_wedge") =>
        /\ Zeroed(<<0, 0, 0>>) <=> (WedgeStart > 0 \/ WedgeEnd < 0)
        /\ (WedgeStart <= 0 /\ 0 <= WedgeEnd) =>
               \A idx \in Indices(TomoShape) :
                   ThetaIsZero(idx) => (Unchanged(idx) /\ ~Zeroed(idx))

\* the range (0, 0) on a 4 x n x 4 volume keeps exactly the coefficients
\* whose theta is 0: DC and (kAxis0, kAxis2) = (0, 1) are preserved
C17_Witness ==
    /\ HasRun("add_missing_wedge")
    /\ args.angles = <<Deg(0), Deg(0)>>
    /\ TomoShape[1] = 4 /\ TomoShape[3] = 4
    /\ ~Zeroed(<<0, 0, 0>>) /\ Unchanged(<<0, 0, 0>>)
    /\ ~Zeroed(<<0, 0, 1>>) /\ Unchanged(<<0, 0, 1>>)
    /\ Zeroed(<<1, 0, 1>>)

\* the range (-60, -30): the end angle is negative and DC is zeroed
C17_WitnessZeroed ==
    /\ HasRun("add_missing_wedge")
    /\ args.angles = <<Deg(-60), Deg(-30)>>
    /\ Zeroed(<<0, 0, 0>>)

\* C18: the wedge mask does not depend on the axis1 coordinate: for every
\* volume shape and angle pair, two coefficients that differ only in their
\* axis1 index are both zeroed or both kept.
C18_MaskIndependentOfAxis1 ==
    HasRun("add_missing_wedge") =>
        \A idx \in Indices(TomoShape) : \A j \in 0..(TomoShape[2] - 1) :
            Zeroed(idx) <=> Zeroed(<<idx[1], j, idx[3]>>)

\* the range (-30, 30) on a 4 x 2 x 4 volume: (1, *, 0) is zeroed and
\* (0, *, 1) is kept at both axis1 indices
C18_Witness ==
    /\ HasRun("add_missing_wedge")
    /\ args.angles = <<Deg(-30), Deg(30)>>
    /\ TomoShape = <<4, 2, 4>>
    /\ Zeroed(<<1, 0, 0>>) /\ Zeroed(<<1, 1, 0>>)
    /\ ~Zeroed(<<0, 0, 1>>) /\ ~Zeroed(<<0, 1, 1>>)

(***************************************************************************)
(* The output path of the masker.                                          *)
(***************************************************************************)
\* the text of a whole number of degrees, as Python prints it
DegreesText(d) == IF d < 0 THEN "-" \o ToString(-d) ELSE ToString(d)

\* <input without extension>_mw_<|start|>_<end>.mrc, start and end in degrees
WedgePath(start, end) ==
    <<"data", "/", "tomo", "_mw_", DegreesText(Abs(start)), "_", DegreesText(end), ".mrc">>

BothWedgesRun == HasRun("add_missing_wedge") /\ HasRun("add_missing_wedge_again")

C19_LaterOverwritesEarlier ==
    [][\A call \in RepeatCalls :
          ret'[call] # ret[call] => fs'[ret'[call].new_path] = ret'[call].volume]_vars

C20_BinsEntireTomogram ==
    (HasRun("bin_tomogram") /\ \A a \in 1..3 : args.chunk_size[a] % args.bin_factor = 0) =>
        LET b      == args.bin_factor
            shape  == fs[args.filename].shape
            saved  == fs[ret["bin_tomogram"].output_filename]
            voxels == saved.data[1].voxels
        IN  /\ saved.shape = <<shape[1] \div b, shape[2] \div b, shape[3] \div b>>
            /\ DOMAIN voxels = Indices(saved.shape)
            /\ \A idx \in DOMAIN voxels :
                   /\ voxels[idx].zeros = 0
                   /\ voxels[idx].samples =
                          {<<idx[1] * b + d[1], idx[2] * b + d[2], idx[3] * b + d[3]>> :
                               d \in Indices(<<b, b, b>>)}

\* what the code saves instead: the binned chunks stacked along axis 0
C20_SavesStackOfChunks ==
    HasRun("bin_tomogram") =>
        LET shape  == fs[args.filename].shape
            saved  == fs[ret["bin_tomogram"].output_filename]
            stride == [a \in 1..3 |-> args.chunk_size[a] - args.overlap[a]]
            count  == [a \in 1..3 |-> (shape[a] + stride[a] - 1) \div stride[a]]
        IN  saved.shape = <<count[1] * count[2] * count[3] * (args.chunk_size[1] \div args.bin_factor),
                            args.chunk_size[2] \div args.bin_factor,
                            args.chunk_size[3] \div args.bin_factor>>

\* a 4 x 4 x 4 tomogram, chunks of 4 overlapping by 2, bin factor 2: the
\* saved volume is 16 x 2 x 2 and its last voxel averages padding only
C20_WitnessStack ==
    /\ HasRun("bin_tomogram")
    /\ fs[args.filename].shape = <<4, 4, 4>>
    /\ args.chunk_size = <<4, 4, 4>> /\ args.bin_factor = 2
    /\ ret["bin_tomogram"].output_filename = <<"data", "/", "tomo", "_", "2", "x_binned", ".mrc">>
    /\ fs[ret["bin_tomogram"].output_filename].shape = <<16, 2, 2>>
    /\ fs[ret["bin_tomogram"].output_filename].data[1].voxels[<<15, 1, 1>>].zeros = 8
    /\ fs[ret["bin_tomogram"].output_filename].data[1].voxels[<<0, 0, 0>>] =
           [samples |-> Indices(<<2, 2, 2>>), zeros |-> 0]

(***************************************************************************)
(* Properties of the random-sphere volumes.                                *)
(***************************************************************************)
\* the function of the session and its frame
SphereFunction == CHOOSE f \in SphereFunctions : f \in DOMAIN ret
Frame == ret[SphereFunction]

Occupied(volume) == {v \in DOMAIN volume : volume[v] # 0}

\* volume2 is volume1 with one sphere added: at a bounding box inside the
\* volume, on voxels that were all empty
SphereAdded(volume1, volume2) ==
    LET changed == {v \in DOMAIN volume1 : volume2[v] # volume1[v]}
    IN  /\ DOMAIN volume2 = DOMAIN volume1
        /\ \A v \in changed : volume1[v] = 0 /\ volume2[v] = 1
        /\ \E c \in Indices(SphereVolumeDim(SphereFunction)) :
               /\ SphereBox(SphereFunction, c) \subseteq Indices(SphereVolumeDim(SphereFunction))
               /\ SphereVoxels(SphereFunction, c) = changed

\* C21: in mkRandomSpheres, after any sequence of placement attempts every
\* voxel of the volume is 0 or 1: an attempt either leaves the volume
\* unchanged or adds one sphere none of whose voxels was occupied, and the
\* bounding box of every centre that can be drawn lies inside the volume.
C21_VoxelsStayBinary ==
    [][/\ \A c \in SphereCentres(SphereFunction) :
              SphereBox(SphereFunction, c) \subseteq Indices(SphereVolumeDim(SphereFunction))
       /\ HasRun(SphereFunction)' =>
              \A v \in DOMAIN Frame'.volume : Frame'.volume[v] \in {0, 1}
       /\ HasRun(SphereFunction) =>
              \/ Frame'.volume = Frame.volume /\ Frame'.placements = Frame.placements
              \/ /\ SphereAdded(Frame.volume, Frame'.volume)
                 /\ Frame'.placements = Frame.placements + 1]_vars

\* makemrc.py with radius 1: one sphere of four voxels was placed, the
\* attempts for the second sphere were rejected and left the volume as it was
C21_Witness ==
    /\ SphereFunction = "makemrc.mkRandomSpheres"
    /\ HasRun(SphereFunction)
    /\ args.sphere_radius = 1
    /\ Frame.placements = 1
    /\ Frame.history = <<[placed |-> TRUE, attempts |-> 1], [placed |-> FALSE, attempts |-> MaxAttempts]>>
    /\ Cardinality(Occupied(Frame.volume)) = 4

\* mkTomogram.py: two double shells were placed, apart from each other
C21_WitnessShells ==
    /\ SphereFunction = "mkTomogram.mkRandomSpheres"
    /\ HasRun(SphereFunction)
    /\ Frame.placements = 2
    /\ Cardinality(Occupied(Frame.volume)) = 2 * Cardinality(SphereMask(SphereFunction))
    /\ Cardinality(SphereMask(SphereFunction)) > 1

\* the attempts made for the spheres whose loop has ended
RECURSIVE AttemptsIn(_)
AttemptsIn(history) ==
    IF history = <<>> THEN 0
    ELSE history[Len(history)].attempts + AttemptsIn(SubSeq(history, 1, Len(history) - 1))

Terminated == Frame.raised \in {"None", "ValueError"}

\* C22: mkRandomSpheres always terminates.  For each sphere the placement
\* loop makes at most max_attempts attempts and stops at the first
\* successful placement, so the attempts in total are at most
\* num_spheres * max_attempts and the placed spheres at most num_spheres;
\* the warning is printed for a sphere exactly when all max_attempts
\* attempts for it failed.
C22_PlacementLoopTerminates ==
    /\ <>Terminated
    /\ [](HasRun(SphereFunction) =>
            LET history == Frame.history
                n       == NumSpheres(SphereFunction)
                inLoop  == Frame.pc = "while" \/ Frame.raised = "ValueError"
            IN  /\ Len(history) <= n
                /\ Frame.attempts <= MaxAttempts
                /\ \A k \in 1..Len(history) :
                       /\ history[k].attempts \in 1..MaxAttempts
                       /\ k \in Frame.printed <=>
                              (~history[k].placed /\ history[k].attempts = MaxAttempts)
                       /\ ~history[k].placed => history[k].attempts = MaxAttempts
                /\ Frame.printed \subseteq 1..Len(history)
                /\ AttemptsIn(history) + (IF inLoop THEN Frame.attempts ELSE 0) <= n * MaxAttempts
                /\ Frame.placements <= n
                /\ Frame.placements = Cardinality({k \in 1..Len(history) : history[k].placed})
                                          + (IF inLoop /\ Frame.placed THEN 1 ELSE 0)
                /\ (inLoop /\ Frame.placed) => Frame.pc = "while")

\* makemrc.py with radius 1 and two spheres: the run has ended and saved the
\* volume, the first sphere was placed at the second attempt, the second
\* sphere never, and the warning names sphere 2
C22_Witness ==
    /\ SphereFunction = "makemrc.mkRandomSpheres"
    /\ Frame.raised = "None" /\ Frame.pc = "done"
    /\ args.sphere_radius = 1 /\ args.num_spheres = 2
    /\ Frame.history = <<[placed |-> TRUE, attempts |-> 1], [placed |-> FALSE, attempts |-> MaxAttempts]>>
    /\ Frame.printed = {2}
    /\ <<"data", "/", "randomSpheres", ".mrc">> \in DOMAIN fs

\* a radius of half the cube and more: randint has nothing to return
C22_WitnessNoCentre ==
    /\ SphereFunction = "makemrc.mkRandomSpheres"
    /\ Frame.raised = "ValueError"
    /\ 2 * args.sphere_radius >= VolumeSize
    /\ fs = <<>>

(***************************************************************************)
(* Properties of the chunks of process_in_chunks.                          *)
(***************************************************************************)
\* C23: in process_in_chunks, for every tomogram shape and every chunk_size
\* and overlap with 0 <= overlap < chunk_size on each axis, every chunk
\* start lies inside the tomogram, every extracted chunk is non-empty and no
\* larger than chunk_size (all pad widths are non-negative and every padded
\* chunk has exactly shape chunk_size), and every voxel of the tomogram
\* lies in at least one extracted chunk.
C23_ChunksCoverTomogram ==
    HasRun("process_in_chunks") =>
        LET shape  == fs[args.filename].shape
            chunks == ret["process_in_chunks"].chunks
        IN  /\ ret["process_in_chunks"].raised = "None"
            /\ \A n \in DOMAIN chunks : \A a \in 1..3 :
                   /\ 0 <= chunks[n].start[a] /\ chunks[n].start[a] < shape[a]
                   /\ 1 <= chunks[n].chunk_shape[a]
                   /\ chunks[n].chunk_shape[a] <= args.chunk_size[a]
                   /\ chunks[n].start[a] + chunks[n].chunk_shape[a] <= shape[a]
                   /\ chunks[n].pad[a] >= 0
            /\ \A n \in DOMAIN chunks : chunks[n].padded_shape = args.chunk_size
            /\ \A v \in Indices(shape) :
                   \E n \in DOMAIN chunks : \A a \in 1..3 :
                       /\ chunks[n].start[a] <= v[a]
                       /\ v[a] < chunks[n].start[a] + chunks[n].chunk_shape[a]

\* a 4 x 3 x 1 tomogram in chunks of (3, 2, 1) overlapping by (1, 0, 0): two
\* chunks along each of the first two axes, the last ones cut short and padded
C23_Witness ==
    /\ HasRun("process_in_chunks")
    /\ fs[args.filename].shape = <<4, 3, 1>>
    /\ args.chunk_size = <<3, 2, 1>> /\ args.overlap = <<1, 0, 0>>
    /\ Len(ret["process_in_chunks"].chunks) = 4
    /\ ret["process_in_chunks"].chunks[4].start = <<2, 2, 0>>
    /\ ret["process_in_chunks"].chunks[4].chunk_shape = <<2, 1, 1>>
    /\ ret["process_in_chunks"].chunks[4].pad = <<1, 1, 0>>
    /\ ret["process_in_chunks"].final_binned_volume_shape = <<4, 1, 0>>

====
